---- MODULE Spec2Model ----
(***************************************************************************)
(* Model of rust-client-watcher (src/src/main.rs): the startup path of     *)
(* main (scope validation, client creation, build_api_resource, choice of  *)
(* the Api), and the watch pipeline                                        *)
(*   watcher(api, cfg).map_ok(modify) -> my_reflector -> default_backoff   *)
(*   -> touched_objects -> for_each.                                       *)
(* The pipeline's library stages (kube::runtime watcher, Event::modify,    *)
(* Writer::apply_watcher_event, StreamBackoff/DefaultBackoff) are modelled *)
(* by what they do at the call sites of main.rs.  The API server is the    *)
(* environment: every list result, watch event and failure it can send is  *)
(* a nondeterministic input.  SpecReaders sets reader handles of the store *)
(* against the writer, and SpecMerge applies the merge_from of the structs *)
(* of src/src/custom_resources.rs to given partial specs.                  *)
(***************************************************************************)
EXTENDS Integers, Sequences, FiniteSets, TLC

VARIABLES
    pc,         \* position of main: a step of MainOrder, or "exit" (returned Err), "returned" (returned Ok)
    cli,        \* the parsed Cli (main.rs:13-29)
    client,     \* "none" | "created": Client::try_default succeeded
    discovery,  \* "none" | "core" | "group": the discovery request sent
    response,   \* the answer to the discovery request, NoResponse before it
    resource,   \* the KubeResource returned by build_api_resource, or NoResource
    api,        \* the Api main built: NoApi, [scope |-> "All"], [scope |-> "Namespaced", ns |-> n]
    err,        \* the error main returned, "none" while running
    wstate,     \* watcher state machine: "Empty" | "InitListed" | "Watching"
    bstate,     \* StreamBackoff state: "Awake" | "BackingOff" | "GivenUp"
    interval,   \* ExponentialBackoff.current_interval, in ms
    delay,      \* the duration of the sleep StreamBackoff armed last, in ms
    store,      \* the reflector store: ObjectRef -> object
    raw,        \* the item the watcher yielded last, as the server sent it
    last,       \* the same item after map_ok(modify), as my_reflector saw it
    pending,    \* why the connection ended since the last Ok event: "start","none","error","end","gone"
    after,      \* the value of pending the last item followed ("err" for an Err item, "none" before any)
    purged,     \* whether the last item took an identity out of the store
    wasReset,   \* whether the last next_backoff found the reset timer expired
    rec,        \* the lines my_reflector printed for the last item
    balance,    \* lines printed minus events applied to the store, since the start
    queue,      \* touched_objects: the objects of a Restarted still to be emitted
    sunk,       \* what the for_each closure received last
    shared,     \* the map behind the store's lock, as a reader handle finds it
    writing,    \* the event the writer is applying, with the map it started from
    seen,       \* per reader handle, the map its last read returned
    mschema,    \* the schema of the specs being merged
    ma, mb, mc, \* three partial specs of that schema
    mstep,      \* how far the merges of ma, mb, mc have got
    mout        \* the results of the merges done so far

vars == <<pc, cli, client, discovery, response, resource, api, err, wstate, bstate, interval,
          delay, store, raw, last, pending, after, purged, wasReset, rec, balance, queue, sunk,
          shared, writing, seen, mschema, ma, mb, mc, mstep, mout>>

startupVars == <<pc, cli, client, discovery, response, resource, api, err>>
pipelineVars == <<wstate, bstate, interval, delay, store, raw, last, pending, after, purged,
                  wasReset, rec, balance, queue, sunk>>
readerVars == <<shared, writing, seen>>
mergeVars == <<mschema, ma, mb, mc, mstep, mout>>
sideVars == <<readerVars, mergeVars>>

----------------------------------------------------------------------------
(* Bounds *)

MaxList == 2        \* longest list a list call returns
MaxApiLen == 3      \* longest --apiversion string
MaxResources == 2   \* longest discovery resource list

----------------------------------------------------------------------------
(* Objects and events *)

None == "None"

Identities == {<<"ns1", "a">>, <<"ns1", "b">>, <<"ns2", "a">>}
Contents == {"s1", "s2"}
ManagedFields == {"None", "Some"}

\* A DynamicObject: metadata.namespace, metadata.name, the rest of the
\* document (spec/status), and metadata.managed_fields.
Objects ==
    {[ns |-> i[1], name |-> i[2], data |-> d, managed_fields |-> m] :
        i \in Identities, d \in Contents, m \in ManagedFields}

\* ObjectRef::from_obj_with: the store's key is (namespace, name).
ObjectRef(o) == <<o.ns, o.name>>

SeqsUpTo(S, n) == UNION {[1..k -> S] : k \in 0..n}

\* What a list call can return: objects with pairwise distinct identities.
ObjectLists ==
    {l \in SeqsUpTo(Objects, MaxList) :
        \A i, j \in 1..Len(l) : i # j => ObjectRef(l[i]) # ObjectRef(l[j])}

StreamErrors ==
    {"InitialListFailed", "NoResourceVersion", "WatchStartFailed", "WatchError", "WatchFailed"}

\* watcher::Result<watcher::Event<K>>: tag is the variant, items the objects
\* it carries (one for Applied and Deleted), err the error of an Err item.
Applied(o) == [tag |-> "Applied", items |-> <<o>>, err |-> None]
Deleted(o) == [tag |-> "Deleted", items |-> <<o>>, err |-> None]
Restarted(l) == [tag |-> "Restarted", items |-> l, err |-> None]
ErrItem(e) == [tag |-> "Err", items |-> <<>>, err |-> e]
NoItem == [tag |-> "None", items |-> <<>>, err |-> None]

IsOk(item) == item.tag \in {"Applied", "Deleted", "Restarted"}

----------------------------------------------------------------------------
(* map_ok(|ev| ev.modify(...)), main.rs:119-124 *)

\* A variant of ClearManagedFields that resets the object's content as well.
ClearManagedFieldsAndData(o) == [o EXCEPT !.managed_fields = "None", !.data = "s1"]

\* The closure of main.rs:120-123: clears metadata.managed_fields only.
ClearManagedFields(o) == [o EXCEPT !.managed_fields = "None"]

\* A variant of Modify whose closure runs on Restarted objects only.
ModifyRestartedOnly(item) ==
    IF item.tag = "Restarted"
    THEN [item EXCEPT !.items = [i \in 1..Len(item.items) |-> ClearManagedFields(item.items[i])]]
    ELSE item

\* Event::modify: the closure runs on the object of Applied and of Deleted
\* and on every object of Restarted; map_ok leaves an Err item as it is.
Modify(item) ==
    IF IsOk(item)
    THEN [item EXCEPT !.items = [i \in 1..Len(item.items) |-> ClearManagedFields(item.items[i])]]
    ELSE item

----------------------------------------------------------------------------
(* my_reflector, main.rs:73-87: writer.apply_watcher_event(event) *)

EmptyStore == [k \in {} |-> None]

\* A variant of Insert that keeps an entry already there.
InsertIfAbsent(s, o) ==
    [k \in DOMAIN s \cup {ObjectRef(o)} |-> IF k \in DOMAIN s THEN s[k] ELSE o]

Insert(s, o) ==
    [k \in DOMAIN s \cup {ObjectRef(o)} |-> IF k = ObjectRef(o) THEN o ELSE s[k]]

Remove(s, o) == [k \in DOMAIN s \ {ObjectRef(o)} |-> s[k]]

\* Restarted: the objects are collected into a new map, in list order.
RECURSIVE Collect(_, _)
Collect(s, l) == IF l = <<>> THEN s ELSE Collect(Insert(s, Head(l)), Tail(l))

\* A variant of ApplyWatcherEvent whose Restarted adds to the map it has.
ApplyWatcherEventMerge(s, ev) ==
    CASE ev.tag = "Applied" -> Insert(s, ev.items[1])
      [] ev.tag = "Deleted" -> Remove(s, ev.items[1])
      [] ev.tag = "Restarted" -> Collect(s, ev.items)
      [] OTHER -> s

\* Writer::apply_watcher_event.
ApplyWatcherEvent(s, ev) ==
    CASE ev.tag = "Applied" -> Insert(s, ev.items[1])
      [] ev.tag = "Deleted" -> Remove(s, ev.items[1])
      [] ev.tag = "Restarted" -> Collect(EmptyStore, ev.items)
      [] OTHER -> s

\* A variant of MyReflector that empties the store on an Err item.
MyReflectorClearsOnErr(s, item) ==
    IF IsOk(item) THEN ApplyWatcherEvent(s, item) ELSE EmptyStore

\* inspect_ok: the closure runs on Ok items only; an Err passes through.
MyReflector(s, item) == IF IsOk(item) THEN ApplyWatcherEvent(s, item) ELSE s

\* main.rs:80-84: the line printed for an event.
Observe(ev) ==
    CASE ev.tag = "Applied" -> <<"apply">>
      [] ev.tag = "Deleted" -> <<"deleted">>
      [] ev.tag = "Restarted" -> <<"restarted", Len(ev.items)>>

\* A variant of MyReflectorPrints that prints nothing for Deleted.
MyReflectorPrintsNoDeleted(item) ==
    IF IsOk(item) /\ item.tag # "Deleted" THEN <<Observe(item)>> ELSE <<>>

\* The lines my_reflector prints for an item: one for an Ok item, none for Err.
MyReflectorPrints(item) == IF IsOk(item) THEN <<Observe(item)>> ELSE <<>>

\* How many times my_reflector calls apply_watcher_event for an item.
MyReflectorApplied(item) == IF IsOk(item) THEN 1 ELSE 0

----------------------------------------------------------------------------
(* Reader handles of the store, main.rs:116-117 *)

\* Reader handles cloned from the writer (as_reader).
Readers == {"r1", "r2"}

\* What a read returned: nothing yet, or <<map>>.
NoRead == <<>>
NotWriting == [ev |-> NoItem, before |-> EmptyStore, steps |-> <<>>]

\* Writer::new: an empty map behind the lock, nothing being applied.
ReadersIdle ==
    /\ shared = EmptyStore
    /\ writing = NotWriting
    /\ seen = [r \in Readers |-> NoRead]

----------------------------------------------------------------------------
(* touched_objects().for_each(..), main.rs:127-130 *)

\* What the closure of for_each receives: an object, or the stream's error.
SunkObject(o) == [kind |-> "obj", obj |-> <<o>>, err |-> None]
SunkError(e) == [kind |-> "err", obj |-> <<>>, err |-> e]
NoSunk == [kind |-> "none", obj |-> <<>>, err |-> None]

\* touched_objects: the objects an event is flattened into (Deleted included).
TouchedObjects(ev) == IF IsOk(ev) THEN ev.items ELSE <<>>

\* A variant of CanPollInner that polls the inner stream ahead.
CanPollInnerAhead(q) == TRUE

\* touched_objects polls the inner stream only when its queue is drained.
CanPollInner(q) == q = <<>>

----------------------------------------------------------------------------
(* default_backoff(), main.rs:127: StreamBackoff over DefaultBackoff *)

InitialInterval == 800
MaxInterval == 30000
Multiplier == 2
\* The randomization factor is 1: a sleep is drawn from
\* [interval - interval, interval + interval]; Jitter are the draws modelled
\* (low end, middle, high end), in halves of the interval.
Jitter == {0, 1, 2}

\* A variant of IncrementInterval without the cap.
IncrementIntervalUncapped(i) == i * Multiplier

\* ExponentialBackoff::increment_current_interval.
IncrementInterval(i) ==
    IF i * Multiplier >= MaxInterval THEN MaxInterval ELSE i * Multiplier

\* A variant of NextBackoff with a retry ceiling: it gives up once the
\* interval has reached its maximum.
NextBackoffCeiling(i, expired, r) ==
    LET cur == IF expired THEN InitialInterval ELSE i
    IN  [some |-> cur < MaxInterval, delay |-> cur * r, interval |-> IncrementInterval(cur)]

\* DefaultBackoff::next_backoff: ResetTimerBackoff resets the schedule when
\* the previous backoff is older than its reset duration (expired), then
\* ExponentialBackoff draws the sleep and advances; max_elapsed_time is None,
\* so the answer is always Some.
NextBackoff(i, expired, r) ==
    LET cur == IF expired THEN InitialInterval ELSE i
    IN  [some |-> TRUE, delay |-> cur * r, interval |-> IncrementInterval(cur)]

\* ResetTimerBackoff has a previous backoff once next_backoff has run.
HasLastBackoff == interval # InitialInterval

----------------------------------------------------------------------------
(* watcher(api, cfg), main.rs:119: the state machine of one step *)

\* A variant of AfterWatchError that keeps the stream whatever the code.
AfterWatchErrorKeep(code) == "Watching"

\* The state after a WatchEvent::Error: 410 Gone desyncs and forces a
\* re-list, any other code keeps the stream.
AfterWatchError(code) == IF code = 410 THEN "Empty" ELSE "Watching"

ErrorCodes == {410, 500}

\* The reason recorded for the end of a connection, strongest first.
Worse(p, q) ==
    IF "start" \in {p, q} THEN "start"
    ELSE IF "gone" \in {p, q} THEN "gone"
    ELSE IF "end" \in {p, q} THEN "end"
    ELSE IF "error" \in {p, q} THEN "error"
    ELSE "none"

\* One item flows through the whole chain inside one poll of for_each:
\* map_ok(modify), my_reflector (print, store write), StreamBackoff
\* (arms the sleep on Err, ends the stream when the backoff gives up).
Deliver(item, ws, cause, expired, r) ==
    LET nb == NextBackoff(interval, expired, r)
    IN  /\ pc = "watching"
        /\ bstate = "Awake"
        /\ CanPollInner(queue)
        /\ raw' = item
        /\ last' = Modify(item)
        /\ rec' = MyReflectorPrints(last')
        /\ store' = MyReflector(store, last')
        /\ balance' = balance + Len(rec') - MyReflectorApplied(last')
        /\ purged' = (DOMAIN store \ DOMAIN store' # {})
        /\ IF IsOk(item)
           THEN LET out == queue \o TouchedObjects(last')
                IN  IF out = <<>>
                    THEN UNCHANGED <<sunk, queue>>
                    ELSE sunk' = SunkObject(Head(out)) /\ queue' = Tail(out)
           ELSE sunk' = SunkError(last'.err) /\ queue' = queue
        /\ wstate' = ws
        /\ IF IsOk(item)
           THEN /\ UNCHANGED <<bstate, interval, delay, pc, wasReset>>
                /\ after' = pending
                /\ pending' = "none"
           ELSE /\ after' = "err"
                /\ pending' = Worse(pending, cause)
                /\ wasReset' = expired
                /\ IF nb.some
                   THEN /\ bstate' = "BackingOff"
                        /\ interval' = nb.interval
                        /\ delay' = nb.delay
                        /\ pc' = pc
                   ELSE /\ bstate' = "GivenUp"
                        /\ pc' = "returned"
                        /\ UNCHANGED <<interval, delay>>
        /\ UNCHANGED <<cli, client, discovery, response, resource, api, err>>
        /\ UNCHANGED sideVars

\* The reset timer can have expired only if there was a backoff before.
Expiries == IF HasLastBackoff THEN BOOLEAN ELSE {FALSE}

\* State::Empty, list succeeded: Restarted(items), then InitListed.
ListOk ==
    /\ wstate = "Empty"
    /\ \E l \in ObjectLists : Deliver(Restarted(l), "InitListed", "none", FALSE, 0)

\* State::Empty, list failed or came without a resource version.
ListErr ==
    /\ wstate = "Empty"
    /\ \E e \in {"InitialListFailed", "NoResourceVersion"}, x \in Expiries, r \in Jitter :
          Deliver(ErrItem(e), "Empty", "error", x, r)

\* State::InitListed, watch opened: no item, Watching.
WatchStartOk ==
    /\ pc = "watching"
    /\ bstate = "Awake"
    /\ CanPollInner(queue)
    /\ wstate = "InitListed"
    /\ wstate' = "Watching"
    /\ UNCHANGED <<bstate, interval, delay, store, raw, last, pending, after, purged, wasReset>>
    /\ UNCHANGED <<rec, balance, queue, sunk>>
    /\ UNCHANGED <<startupVars, sideVars>>

\* State::InitListed, watch could not be opened: Err, still InitListed.
WatchStartErr ==
    /\ wstate = "InitListed"
    /\ \E x \in Expiries, r \in Jitter :
          Deliver(ErrItem("WatchStartFailed"), "InitListed", "error", x, r)

\* State::Watching, WatchEvent::Added or Modified.
WatchApplied ==
    /\ wstate = "Watching"
    /\ \E o \in Objects : Deliver(Applied(o), "Watching", "none", FALSE, 0)

\* State::Watching, WatchEvent::Deleted.
WatchDeleted ==
    /\ wstate = "Watching"
    /\ \E o \in Objects : Deliver(Deleted(o), "Watching", "none", FALSE, 0)

\* State::Watching, WatchEvent::Error(code).
WatchError ==
    /\ wstate = "Watching"
    /\ \E code \in ErrorCodes, x \in Expiries, r \in Jitter :
          Deliver(ErrItem("WatchError"), AfterWatchError(code),
                  IF code = 410 THEN "gone" ELSE "error", x, r)

\* State::Watching, the stream yields an error (network failure).
WatchFailed ==
    /\ wstate = "Watching"
    /\ \E x \in Expiries, r \in Jitter :
          Deliver(ErrItem("WatchFailed"), "Watching", "error", x, r)

\* State::Watching, the stream ended (timeout, connection closed): no item,
\* InitListed with the resource version kept.
WatchEnd ==
    /\ pc = "watching"
    /\ bstate = "Awake"
    /\ CanPollInner(queue)
    /\ wstate = "Watching"
    /\ wstate' = "InitListed"
    /\ pending' = Worse(pending, "end")
    /\ UNCHANGED <<bstate, interval, delay, store, raw, last, after, purged, wasReset>>
    /\ UNCHANGED <<rec, balance, queue, sunk>>
    /\ UNCHANGED <<startupVars, sideVars>>

\* touched_objects: the next object of the Restarted being flattened.
SinkNext ==
    /\ pc = "watching"
    /\ queue # <<>>
    /\ sunk' = SunkObject(Head(queue))
    /\ queue' = Tail(queue)
    /\ UNCHANGED <<wstate, bstate, interval, delay, store, raw, last, pending, after, purged,
                   wasReset, rec, balance>>
    /\ UNCHANGED <<startupVars, sideVars>>

\* StreamBackoff: the sleep elapsed.
BackoffWake ==
    /\ pc = "watching"
    /\ bstate = "BackingOff"
    /\ bstate' = "Awake"
    /\ UNCHANGED <<wstate, interval, delay, store, raw, last, pending, after, purged, wasReset>>
    /\ UNCHANGED <<rec, balance, queue, sunk>>
    /\ UNCHANGED <<startupVars, sideVars>>

----------------------------------------------------------------------------
(* custom_resources.rs: the typed specs and their merge_from *)

\* Option<T> is <<>> for None and <<v>> for Some(v).
Absent == <<>>
Some(v) == <<v>>

\* String::merge_from and bool::merge_from: other replaces self.
MergeString(self, other) == other
MergeBool(self, other) == other

\* A variant of MergeOptString that leaves an absent self absent.
MergeOptStringKeepsAbsent(self, other) ==
    IF other # Absent /\ self # Absent THEN Some(MergeString(self[1], other[1])) ELSE self

\* Option<String>::merge_from: nothing if other is None; the inner merge if
\* both are Some; other if self is None.
MergeOptString(self, other) ==
    IF other # Absent
    THEN IF self # Absent THEN Some(MergeString(self[1], other[1])) ELSE other
    ELSE self

\* A variant of MergeResourceQuotaLimit whose pods line reads other.services.
MergeResourceQuotaLimitCrossed(self, other) ==
    [pods |-> MergeOptString(self.pods, other.services),
     services |-> MergeOptString(self.services, other.services),
     replication_controllers |-> MergeOptString(self.replication_controllers, other.replication_controllers),
     secrets |-> MergeOptString(self.secrets, other.secrets),
     config_maps |-> MergeOptString(self.config_maps, other.config_maps),
     persistent_volume_claims |-> MergeOptString(self.persistent_volume_claims, other.persistent_volume_claims),
     services_node_ports |-> MergeOptString(self.services_node_ports, other.services_node_ports),
     services_load_balancers |-> MergeOptString(self.services_load_balancers, other.services_load_balancers),
     requests_cpu |-> MergeOptString(self.requests_cpu, other.requests_cpu),
     requests_memory |-> MergeOptString(self.requests_memory, other.requests_memory),
     requests_storage |-> MergeOptString(self.requests_storage, other.requests_storage),
     limits_cpu |-> MergeOptString(self.limits_cpu, other.limits_cpu),
     limits_memory |-> MergeOptString(self.limits_memory, other.limits_memory)]

\* custom_resources.rs:69-92.
MergeResourceQuotaLimit(self, other) ==
    [pods |-> MergeOptString(self.pods, other.pods),
     services |-> MergeOptString(self.services, other.services),
     replication_controllers |-> MergeOptString(self.replication_controllers, other.replication_controllers),
     secrets |-> MergeOptString(self.secrets, other.secrets),
     config_maps |-> MergeOptString(self.config_maps, other.config_maps),
     persistent_volume_claims |-> MergeOptString(self.persistent_volume_claims, other.persistent_volume_claims),
     services_node_ports |-> MergeOptString(self.services_node_ports, other.services_node_ports),
     services_load_balancers |-> MergeOptString(self.services_load_balancers, other.services_load_balancers),
     requests_cpu |-> MergeOptString(self.requests_cpu, other.requests_cpu),
     requests_memory |-> MergeOptString(self.requests_memory, other.requests_memory),
     requests_storage |-> MergeOptString(self.requests_storage, other.requests_storage),
     limits_cpu |-> MergeOptString(self.limits_cpu, other.limits_cpu),
     limits_memory |-> MergeOptString(self.limits_memory, other.limits_memory)]

\* Option<ResourceQuotaLimit>::merge_from.
MergeOptResourceQuotaLimit(self, other) ==
    IF other # Absent
    THEN IF self # Absent THEN Some(MergeResourceQuotaLimit(self[1], other[1])) ELSE other
    ELSE self

\* custom_resources.rs:107-117.
MergeContainerResourceLimit(self, other) ==
    [requests_cpu |-> MergeOptString(self.requests_cpu, other.requests_cpu),
     requests_memory |-> MergeOptString(self.requests_memory, other.requests_memory),
     limits_cpu |-> MergeOptString(self.limits_cpu, other.limits_cpu),
     limits_memory |-> MergeOptString(self.limits_memory, other.limits_memory)]

\* Option<ContainerResourceLimit>::merge_from.
MergeOptContainerResourceLimit(self, other) ==
    IF other # Absent
    THEN IF self # Absent THEN Some(MergeContainerResourceLimit(self[1], other[1])) ELSE other
    ELSE self

\* custom_resources.rs:10-17.
MergeNamespaceResourceQuota(self, other) ==
    [limit |-> MergeOptResourceQuotaLimit(self.limit, other.limit)]

\* Option<NamespaceResourceQuota>::merge_from.
MergeOptNamespaceResourceQuota(self, other) ==
    IF other # Absent
    THEN IF self # Absent THEN Some(MergeNamespaceResourceQuota(self[1], other[1])) ELSE other
    ELSE self

\* custom_resources.rs:28-36.
MergeProjectResourceQuota(self, other) ==
    [limit |-> MergeOptResourceQuotaLimit(self.limit, other.limit),
     used_limit |-> MergeOptResourceQuotaLimit(self.used_limit, other.used_limit)]

\* Option<ProjectResourceQuota>::merge_from.
MergeOptProjectResourceQuota(self, other) ==
    IF other # Absent
    THEN IF self # Absent THEN Some(MergeProjectResourceQuota(self[1], other[1])) ELSE other
    ELSE self

\* A variant of MergeProjectSpec that keeps its own description.
MergeProjectSpecKeepsDescription(self, other) ==
    [display_name |-> MergeOptString(self.display_name, other.display_name),
     description |-> self.description,
     cluster_name |-> MergeOptString(self.cluster_name, other.cluster_name),
     resource_quota |-> MergeOptProjectResourceQuota(self.resource_quota, other.resource_quota),
     namespace_default_resource_quota |->
         MergeOptNamespaceResourceQuota(self.namespace_default_resource_quota,
                                        other.namespace_default_resource_quota),
     container_default_resource_limit |->
         MergeOptContainerResourceLimit(self.container_default_resource_limit,
                                        other.container_default_resource_limit),
     enable_project_monitoring |->
         MergeBool(self.enable_project_monitoring, other.enable_project_monitoring)]

\* custom_resources.rs:152-168.
MergeProjectSpec(self, other) ==
    [display_name |-> MergeOptString(self.display_name, other.display_name),
     description |-> MergeString(self.description, other.description),
     cluster_name |-> MergeOptString(self.cluster_name, other.cluster_name),
     resource_quota |-> MergeOptProjectResourceQuota(self.resource_quota, other.resource_quota),
     namespace_default_resource_quota |->
         MergeOptNamespaceResourceQuota(self.namespace_default_resource_quota,
                                        other.namespace_default_resource_quota),
     container_default_resource_limit |->
         MergeOptContainerResourceLimit(self.container_default_resource_limit,
                                        other.container_default_resource_limit),
     enable_project_monitoring |->
         MergeBool(self.enable_project_monitoring, other.enable_project_monitoring)]

\* merge_from of the schema named t.
MergeFrom(t, self, other) ==
    CASE t = "ResourceQuotaLimit" -> MergeResourceQuotaLimit(self, other)
      [] t = "ContainerResourceLimit" -> MergeContainerResourceLimit(self, other)
      [] t = "NamespaceResourceQuota" -> MergeNamespaceResourceQuota(self, other)
      [] t = "ProjectResourceQuota" -> MergeProjectResourceQuota(self, other)
      [] t = "ProjectSpec" -> MergeProjectSpec(self, other)

\* The fields of each struct with their types (custom_resources.rs:5-8,
\* 21-26, 40-67, 96-105, 137-150): opt for Option<..>, of for the type inside.
OptOf(t) == [opt |-> TRUE, of |-> t]
Plain(t) == [opt |-> FALSE, of |-> t]

ResourceQuotaLimitFields ==
    [pods |-> OptOf("String"),
     services |-> OptOf("String"),
     replication_controllers |-> OptOf("String"),
     secrets |-> OptOf("String"),
     config_maps |-> OptOf("String"),
     persistent_volume_claims |-> OptOf("String"),
     services_node_ports |-> OptOf("String"),
     services_load_balancers |-> OptOf("String"),
     requests_cpu |-> OptOf("String"),
     requests_memory |-> OptOf("String"),
     requests_storage |-> OptOf("String"),
     limits_cpu |-> OptOf("String"),
     limits_memory |-> OptOf("String")]

ContainerResourceLimitFields ==
    [requests_cpu |-> OptOf("String"),
     requests_memory |-> OptOf("String"),
     limits_cpu |-> OptOf("String"),
     limits_memory |-> OptOf("String")]

NamespaceResourceQuotaFields == [limit |-> OptOf("ResourceQuotaLimit")]

ProjectResourceQuotaFields ==
    [limit |-> OptOf("ResourceQuotaLimit"),
     used_limit |-> OptOf("ResourceQuotaLimit")]

ProjectSpecFields ==
    [display_name |-> OptOf("String"),
     description |-> Plain("String"),
     cluster_name |-> OptOf("String"),
     resource_quota |-> OptOf("ProjectResourceQuota"),
     namespace_default_resource_quota |-> OptOf("NamespaceResourceQuota"),
     container_default_resource_limit |-> OptOf("ContainerResourceLimit"),
     enable_project_monitoring |-> Plain("bool")]

Schemas ==
    [ResourceQuotaLimit |-> ResourceQuotaLimitFields,
     ContainerResourceLimit |-> ContainerResourceLimitFields,
     NamespaceResourceQuota |-> NamespaceResourceQuotaFields,
     ProjectResourceQuota |-> ProjectResourceQuotaFields,
     ProjectSpec |-> ProjectSpecFields]

\* Quantity strings of a quota or limit.
Quantities == {"5", "3"}

\* A struct of Option fields with every field None.
AllAbsent(fields) == [f \in DOMAIN fields |-> Absent]

\* Partial ResourceQuotaLimit values: nothing set, one field set, all set.
ResourceQuotaLimits ==
    {AllAbsent(ResourceQuotaLimitFields)}
        \cup {[AllAbsent(ResourceQuotaLimitFields) EXCEPT ![f] = Some(q)] :
                 f \in DOMAIN ResourceQuotaLimitFields, q \in Quantities}
        \cup {[f \in DOMAIN ResourceQuotaLimitFields |-> Some("5")]}

\* Partial ContainerResourceLimit values: nothing set, one field set, all set.
ContainerResourceLimits ==
    {AllAbsent(ContainerResourceLimitFields)}
        \cup {[AllAbsent(ContainerResourceLimitFields) EXCEPT ![f] = Some(q)] :
                 f \in DOMAIN ContainerResourceLimitFields, q \in Quantities}
        \cup {[f \in DOMAIN ContainerResourceLimitFields |-> Some("5")]}

\* The limits nested values are built from: None, nothing set, pods or
\* services set.
NestedLimits ==
    {Absent, Some(AllAbsent(ResourceQuotaLimitFields)),
     Some([AllAbsent(ResourceQuotaLimitFields) EXCEPT !.pods = Some("5")]),
     Some([AllAbsent(ResourceQuotaLimitFields) EXCEPT !.pods = Some("3")]),
     Some([AllAbsent(ResourceQuotaLimitFields) EXCEPT !.services = Some("3")])}

NamespaceResourceQuotas == {[limit |-> l] : l \in NestedLimits}

ProjectResourceQuotas ==
    {[limit |-> l, used_limit |-> u] :
        l \in NestedLimits, u \in NestedLimits \ {Some(AllAbsent(ResourceQuotaLimitFields))}}

\* A ProjectSpec with every optional field None.
BareProjectSpec ==
    [display_name |-> Absent, description |-> "d1", cluster_name |-> Absent,
     resource_quota |-> Absent, namespace_default_resource_quota |-> Absent,
     container_default_resource_limit |-> Absent, enable_project_monitoring |-> FALSE]

\* What each field of a ProjectSpec is drawn from.
ProjectSpecValues ==
    [display_name |-> {Absent, Some("n1"), Some("n2")},
     description |-> {"d1", "d2"},
     cluster_name |-> {Absent, Some("c1"), Some("c2")},
     resource_quota |->
         {Absent, Some([limit |-> Absent, used_limit |-> Some(AllAbsent(ResourceQuotaLimitFields))])}
             \cup {Some([limit |-> l, used_limit |-> Absent]) : l \in NestedLimits},
     namespace_default_resource_quota |->
         {Absent} \cup {Some(q) : q \in NamespaceResourceQuotas},
     container_default_resource_limit |->
         {Absent, Some(AllAbsent(ContainerResourceLimitFields)),
          Some([AllAbsent(ContainerResourceLimitFields) EXCEPT !.limits_cpu = Some("5")]),
          Some([AllAbsent(ContainerResourceLimitFields) EXCEPT !.limits_cpu = Some("3")]),
          Some([AllAbsent(ContainerResourceLimitFields) EXCEPT !.limits_memory = Some("3")])},
     enable_project_monitoring |-> BOOLEAN]

\* Partial ProjectSpec values: the bare one with one field varied.
ProjectSpecs ==
    UNION {{[BareProjectSpec EXCEPT ![f] = v] : v \in ProjectSpecValues[f]} :
              f \in DOMAIN ProjectSpecFields}

\* The partial specs of the schema named t.
PartialSpecs(t) ==
    CASE t = "ResourceQuotaLimit" -> ResourceQuotaLimits
      [] t = "ContainerResourceLimit" -> ContainerResourceLimits
      [] t = "NamespaceResourceQuota" -> NamespaceResourceQuotas
      [] t = "ProjectResourceQuota" -> ProjectResourceQuotas
      [] t = "ProjectSpec" -> ProjectSpecs

----------------------------------------------------------------------------
(* merge_from applied: x into x, b into a then c, c into b then that into a *)

NoOut == [aa |-> Absent, ab |-> Absent, ab_c |-> Absent, bc |-> Absent, a_bc |-> Absent]

\* No merge under way.
MergeIdle ==
    /\ mschema = "none"
    /\ ma = Absent
    /\ mb = Absent
    /\ mc = Absent
    /\ mstep = "idle"
    /\ mout = NoOut

\* Three partial specs of one schema are given.
MergeGiven ==
    /\ mschema \in DOMAIN Schemas
    /\ ma \in PartialSpecs(mschema)
    /\ mb \in PartialSpecs(mschema)
    /\ mc \in PartialSpecs(mschema)
    /\ mstep = "given"
    /\ mout = NoOut

\* a.clone().merge_from(a.clone())
MergeSelf ==
    /\ mstep = "given"
    /\ mstep' = "self"
    /\ mout' = [mout EXCEPT !.aa = Some(MergeFrom(mschema, ma, ma))]
    /\ UNCHANGED <<mschema, ma, mb, mc>>
    /\ UNCHANGED <<startupVars, pipelineVars, readerVars>>

\* a.merge_from(b); a.merge_from(c)
MergeLeft ==
    /\ mstep = "self"
    /\ mstep' = "left"
    /\ LET ab == MergeFrom(mschema, ma, mb)
       IN  mout' = [mout EXCEPT !.ab = Some(ab), !.ab_c = Some(MergeFrom(mschema, ab, mc))]
    /\ UNCHANGED <<mschema, ma, mb, mc>>
    /\ UNCHANGED <<startupVars, pipelineVars, readerVars>>

\* b.merge_from(c); a.merge_from(b)
MergeRight ==
    /\ mstep = "left"
    /\ mstep' = "right"
    /\ LET bc == MergeFrom(mschema, mb, mc)
       IN  mout' = [mout EXCEPT !.bc = Some(bc), !.a_bc = Some(MergeFrom(mschema, ma, bc))]
    /\ UNCHANGED <<mschema, ma, mb, mc>>
    /\ UNCHANGED <<startupVars, pipelineVars, readerVars>>

----------------------------------------------------------------------------
(* Cli, main.rs:11-29 *)

Chars == {"v", "1", "/"}
ApiVersions == SeqsUpTo(Chars, MaxApiLen)
Kinds == {"K1", "K2"}
NamespaceArgs == {None, "ns1"}

V1 == <<"v", "1">>

CliInputs ==
    [apiversion : ApiVersions, kind : {"K1"}, namespace : NamespaceArgs, global : BOOLEAN]

----------------------------------------------------------------------------
(* build_api_resource, main.rs:37-67 *)

\* An APIResource of the discovery answer: name (the plural), kind, namespaced.
APIResources == [name : {"p", "q"}, kind : Kinds, namespaced : BOOLEAN]

NoResponse == [ok |-> FALSE, sent |-> FALSE, resources |-> <<>>]
DiscoveryFailed == [ok |-> FALSE, sent |-> TRUE, resources |-> <<>>]
DiscoveryList(l) == [ok |-> TRUE, sent |-> TRUE, resources |-> l]

\* What the server can answer to list_core_api_resources / list_api_group_resources.
DiscoveryResponses ==
    {DiscoveryFailed} \cup {DiscoveryList(l) : l \in SeqsUpTo(APIResources, MaxResources)}

\* main.rs:38-41: which discovery call is made.
DiscoveryCall(apiversion) == IF apiversion = V1 THEN "core" ELSE "group"

\* str::split_once('/'): the parts before and after the first '/'.
SplitOnce(s) ==
    LET at == {i \in 1..Len(s) : s[i] = "/"}
    IN  IF at = {}
        THEN [some |-> FALSE, left |-> <<>>, right |-> <<>>]
        ELSE LET i == CHOOSE k \in at : \A j \in at : k <= j
             IN  [some |-> TRUE, left |-> SubSeq(s, 1, i - 1), right |-> SubSeq(s, i + 1, Len(s))]

\* main.rs:43-48: (group, version) of the apiversion.
GroupVersion(apiversion) ==
    IF apiversion = V1
    THEN [some |-> TRUE, left |-> <<>>, right |-> V1]
    ELSE SplitOnce(apiversion)

\* A variant of FindKind that takes the last match.
FindKindLast(l, kind) ==
    LET hits == {i \in 1..Len(l) : l[i].kind = kind}
    IN  IF hits = {} THEN 0 ELSE CHOOSE k \in hits : \A j \in hits : k >= j

\* main.rs:50-55: iter().find(|r| r.kind == kind), 0 when there is none.
FindKind(l, kind) ==
    LET hits == {i \in 1..Len(l) : l[i].kind = kind}
    IN  IF hits = {} THEN 0 ELSE CHOOSE k \in hits : \A j \in hits : k <= j

NoResource ==
    [group |-> <<>>, version |-> <<>>, api_version |-> <<>>, kind |-> None,
     plural |-> None, namespaced |-> FALSE]

\* build_api_resource: the discovery call's `?`, then the split's `?`, then
\* the find's `?`, then Ok(KubeResource).
BuildApiResource(resp, apiversion, kind) ==
    LET gv == GroupVersion(apiversion)
        i == FindKind(resp.resources, kind)
    IN  IF ~resp.ok THEN [ok |-> FALSE, err |-> "DiscoveryError", value |-> NoResource]
        ELSE IF ~gv.some THEN [ok |-> FALSE, err |-> "MalformedGroupVersion", value |-> NoResource]
        ELSE IF i = 0 THEN [ok |-> FALSE, err |-> "NotFound", value |-> NoResource]
        ELSE [ok |-> TRUE, err |-> "none",
              value |-> [group |-> gv.left, version |-> gv.right, api_version |-> apiversion,
                         kind |-> kind, plural |-> resp.resources[i].name,
                         namespaced |-> resp.resources[i].namespaced]]

----------------------------------------------------------------------------
(* main, main.rs:90-134: startup *)

AllApi == [scope |-> "All", ns |-> None]
NamespacedApi(n) == [scope |-> "Namespaced", ns |-> n]
NoApi == [scope |-> "None", ns |-> None]

\* A variant of MainOrder that creates the client before the scope check.
MainOrderClientFirst == <<"client", "validate", "resolve", "select", "open", "watching">>

\* The order of main's statements up to the watch loop.
MainOrder == <<"validate", "client", "resolve", "select", "open", "watching">>

\* The step that follows step p.
Following(p) ==
    LET i == CHOOSE k \in 1..Len(MainOrder) : MainOrder[k] = p
    IN  MainOrder[i + 1]

\* A variant of ConflictingScope with the namespace test inverted.
ConflictingScopeInverted(c) == c.namespace = None /\ c.global

\* main.rs:92: the condition of the conflicting-scope error.
ConflictingScope(c) == c.namespace # None /\ c.global

\* A variant of SelectApi that falls back to all_with when no namespace is given.
SelectApiFallback(c, res) ==
    IF ~c.global /\ res.namespaced /\ c.namespace # None
    THEN [ok |-> TRUE, api |-> NamespacedApi(c.namespace)]
    ELSE [ok |-> TRUE, api |-> AllApi]

\* A variant of SelectApi that does not look at the descriptor.
SelectApiIgnoresDescriptor(c, res) ==
    IF ~c.global
    THEN IF c.namespace # None
         THEN [ok |-> TRUE, api |-> NamespacedApi(c.namespace)]
         ELSE [ok |-> FALSE, api |-> NoApi]
    ELSE [ok |-> TRUE, api |-> AllApi]

\* main.rs:103-114: the Api for the requested scope.
SelectApi(c, res) ==
    IF ~c.global /\ res.namespaced
    THEN IF c.namespace # None
         THEN [ok |-> TRUE, api |-> NamespacedApi(c.namespace)]
         ELSE [ok |-> FALSE, api |-> NoApi]
    ELSE [ok |-> TRUE, api |-> AllApi]

\* main.rs:92-96.
ValidateScope ==
    /\ pc = "validate"
    /\ IF ConflictingScope(cli)
       THEN pc' = "exit" /\ err' = "ConflictingScope"
       ELSE pc' = Following(pc) /\ err' = err
    /\ UNCHANGED <<cli, client, discovery, response, resource, api>>
    /\ UNCHANGED <<pipelineVars, sideVars>>

\* main.rs:98: Client::try_default().await?
CreateClient ==
    /\ pc = "client"
    /\ \E ok \in BOOLEAN :
          IF ok
          THEN pc' = Following(pc) /\ client' = "created" /\ err' = err
          ELSE pc' = "exit" /\ client' = client /\ err' = "ClientError"
    /\ UNCHANGED <<cli, discovery, response, resource, api>>
    /\ UNCHANGED <<pipelineVars, sideVars>>

\* main.rs:100: build_api_resource(&client, &cli.apiversion, &cli.kind).await?
Resolve ==
    /\ pc = "resolve"
    /\ discovery' = DiscoveryCall(cli.apiversion)
    /\ \E resp \in DiscoveryResponses :
          LET r == BuildApiResource(resp, cli.apiversion, cli.kind)
          IN  /\ response' = resp
              /\ resource' = r.value
              /\ IF r.ok
                 THEN pc' = Following(pc) /\ err' = err
                 ELSE pc' = "exit" /\ err' = r.err
    /\ UNCHANGED <<cli, client, api>>
    /\ UNCHANGED <<pipelineVars, sideVars>>

\* main.rs:103-114.
ChooseApi ==
    /\ pc = "select"
    /\ LET t == SelectApi(cli, resource)
       IN  /\ api' = t.api
           /\ IF t.ok
              THEN pc' = Following(pc) /\ err' = err
              ELSE pc' = "exit" /\ err' = "MissingNamespace"
    /\ UNCHANGED <<cli, client, discovery, response, resource>>
    /\ UNCHANGED <<pipelineVars, sideVars>>

\* main.rs:116-127: the writer, the watcher and the stream are built.
OpenWatch ==
    /\ pc = "open"
    /\ pc' = Following(pc)
    /\ UNCHANGED <<cli, client, discovery, response, resource, api, err>>
    /\ UNCHANGED <<pipelineVars, sideVars>>

PipelineStart ==
    /\ wstate = "Empty"
    /\ bstate = "Awake"
    /\ interval = InitialInterval
    /\ delay = 0
    /\ store = EmptyStore
    /\ raw = NoItem
    /\ last = NoItem
    /\ pending = "start"
    /\ after = "none"
    /\ purged = FALSE
    /\ wasReset = FALSE
    /\ rec = <<>>
    /\ balance = 0
    /\ queue = <<>>
    /\ sunk = NoSunk

StartupInit ==
    /\ pc = MainOrder[1]
    /\ cli \in CliInputs
    /\ client = "none"
    /\ discovery = "none"
    /\ response = NoResponse
    /\ resource = NoResource
    /\ api = NoApi
    /\ err = "none"
    /\ PipelineStart
    /\ ReadersIdle
    /\ MergeIdle

StartupNext ==
    \/ ValidateScope
    \/ CreateClient
    \/ Resolve
    \/ ChooseApi
    \/ OpenWatch

SpecStartup == StartupInit /\ [][StartupNext]_vars

----------------------------------------------------------------------------
(* The pipeline, from the state main is in at main.rs:125-131 *)

\* A state SpecStartup reaches: --apiversion v1 --kind K1 --global.
PipelineInit ==
    /\ pc = "watching"
    /\ cli = [apiversion |-> V1, kind |-> "K1", namespace |-> None, global |-> TRUE]
    /\ client = "created"
    /\ discovery = "core"
    /\ response = DiscoveryList(<<[name |-> "p", kind |-> "K1", namespaced |-> TRUE]>>)
    /\ resource = [group |-> <<>>, version |-> V1, api_version |-> V1, kind |-> "K1",
                   plural |-> "p", namespaced |-> TRUE]
    /\ api = AllApi
    /\ err = "none"
    /\ PipelineStart

Init == PipelineInit /\ ReadersIdle /\ MergeIdle

Next ==
    \/ ListOk
    \/ ListErr
    \/ WatchStartOk
    \/ WatchStartErr
    \/ WatchApplied
    \/ WatchDeleted
    \/ WatchError
    \/ WatchFailed
    \/ WatchEnd
    \/ BackoffWake
    \/ SinkNext

Spec == Init /\ [][Next]_vars

\* SpecStartup reaches the state the pipeline starts from.
StartupReachesPipelineInit == ~Init

----------------------------------------------------------------------------
(* merge_from on its own, from three given specs *)

MergeInit == PipelineInit /\ ReadersIdle /\ MergeGiven

MergeNext ==
    \/ MergeSelf
    \/ MergeLeft
    \/ MergeRight

SpecMerge == MergeInit /\ [][MergeNext]_vars

----------------------------------------------------------------------------
(* Properties of the reflector store (Spec) *)

KeysOf(l) == {ObjectRef(l[i]) : i \in 1..Len(l)}

\* C1: right after the store processed Restarted(L), the store's identities
\* are exactly those of L and each maps to its object of L; an entry that was
\* there before and is not in L is gone.
C1_RestartedReplacesStore ==
    last.tag = "Restarted" =>
        /\ DOMAIN store = KeysOf(last.items)
        /\ \A i \in 1..Len(last.items) : store[ObjectRef(last.items[i])] = last.items[i]

\* A Restarted with objects was processed and took an identity out of the store.
C1_Witness == last.tag = "Restarted" /\ purged /\ last.items # <<>>

\* C2: every step that processes Applied(o) upserts o under its identity and
\* leaves the other entries alone; every step that processes Deleted(o)
\* removes the entry of o's identity, leaves the others alone, and changes
\* nothing when that identity is absent.
C2_AppliedDeletedFold ==
    [][ /\ last'.tag = "Applied" =>
            LET o == last'.items[1]
            IN  /\ DOMAIN store' = DOMAIN store \cup {ObjectRef(o)}
                /\ store'[ObjectRef(o)] = o
                /\ \A k \in DOMAIN store \ {ObjectRef(o)} : store'[k] = store[k]
        /\ last'.tag = "Deleted" =>
            LET o == last'.items[1]
            IN  /\ DOMAIN store' = DOMAIN store \ {ObjectRef(o)}
                /\ \A k \in DOMAIN store' : store'[k] = store[k]
                /\ ObjectRef(o) \notin DOMAIN store => store' = store ]_vars

\* A Deleted for an absent identity was processed while other entries are held.
C2_Witness == last.tag = "Deleted" /\ ~purged /\ DOMAIN store # {}

----------------------------------------------------------------------------
(* Properties of the startup path (SpecStartup) *)

\* C3: with a namespace and the global flag both requested, main goes no
\* further than the scope check: it exits with the conflicting-scope error,
\* whatever apiversion and kind were asked for, and no watch is opened.
C3_ConflictAlwaysFails ==
    (cli.namespace # None /\ cli.global) =>
        /\ pc \in {"validate", "exit"}
        /\ pc = "exit" => err = "ConflictingScope"
        /\ pc = "validate" => ENABLED ValidateScope
        /\ api = NoApi
        /\ wstate = "Empty"

\* main exited on a namespace given together with --global.
C3_Witness == cli.namespace # None /\ cli.global /\ pc = "exit" /\ err = "ConflictingScope"

\* C4: with a namespaced descriptor resolved and neither a namespace nor the
\* global flag requested, main goes no further than the choice of the Api:
\* it exits with the missing-namespace error and no watch is opened.
C4_MissingNamespaceFails ==
    (resource.kind # None /\ resource.namespaced /\ cli.namespace = None /\ ~cli.global) =>
        /\ pc \in {"select", "exit"}
        /\ pc = "exit" => err = "MissingNamespace"
        /\ pc = "select" => ENABLED ChooseApi
        /\ api = NoApi
        /\ wstate = "Empty"

\* main exited on a namespaced descriptor with no scope requested.
C4_Witness ==
    /\ resource.kind # None /\ resource.namespaced /\ cli.namespace = None /\ ~cli.global
    /\ pc = "exit" /\ err = "MissingNamespace"

\* C5 as stated: an exit on either configuration error happens before the
\* client is created and before a discovery request is sent.
C5_ConfigErrorsBeforeNetwork ==
    err \in {"ConflictingScope", "MissingNamespace"} =>
        client = "none" /\ discovery = "none"

\* C5 amended: the conflicting-scope exit happens before the client is
\* created and before any discovery request; the missing-namespace exit
\* happens after the client was created and discovery answered, and before
\* any watch is opened.
C5_ConflictBeforeNetworkMissingAfter ==
    /\ err = "ConflictingScope" =>
          client = "none" /\ discovery = "none" /\ ~response.sent
    /\ err = "MissingNamespace" =>
          client = "created" /\ discovery # "none" /\ response.ok /\ api = NoApi /\ wstate = "Empty"

\* main exited on the missing namespace, the client created and discovery done.
C5_Witness == err = "MissingNamespace" /\ pc = "exit" /\ client = "created" /\ response.ok

\* The target the rules give for a combination that neither error rule rejects.
ExpectedApi(c, res) ==
    IF ~res.namespaced THEN AllApi
    ELSE IF c.namespace # None /\ ~c.global THEN NamespacedApi(c.namespace)
    ELSE AllApi

RejectedByRule(c, res) ==
    \/ c.namespace # None /\ c.global
    \/ res.namespaced /\ c.namespace = None /\ ~c.global

\* C6: once the descriptor is resolved and the Api chosen, a combination
\* neither error rule rejects has the target of the rules (all for a
\* descriptor that is not namespaced, whatever namespace was given;
\* Namespaced(name) for a namespaced one with a namespace and no global flag;
\* all for a namespaced one with the global flag), and is never rejected.
C6_ValidTargets ==
    (resource.kind # None /\ pc \in {"open", "watching", "exit"}) =>
        IF RejectedByRule(cli, resource)
        THEN pc = "exit" /\ err \in {"ConflictingScope", "MissingNamespace"}
        ELSE pc # "exit" /\ err = "none" /\ api = ExpectedApi(cli, resource)

\* The watch is opened on all for a descriptor that is not namespaced although
\* a namespace was given.
C6_Witness ==
    /\ resource.kind # None /\ ~resource.namespaced /\ cli.namespace # None
    /\ pc = "watching" /\ api = AllApi

HasSlash(s) == \E i \in 1..Len(s) : s[i] = "/"

WellFormed(apiversion) == apiversion = V1 \/ HasSlash(apiversion)

\* C7: for a group/version that is "v1" or splits at a '/', and a discovery
\* list that was returned: when the list has an entry of the requested kind,
\* the descriptor has the plural name and the namespaced flag of the first
\* such entry, the kind and apiversion as requested, and group and version
\* the parts of the apiversion around its first '/'; when no entry has that
\* kind, main exits with NotFound and there is no descriptor.
C7_ResolverReturnsDiscoveryEntry ==
    (response.ok /\ WellFormed(cli.apiversion)) =>
        LET l == response.resources
            hits == {i \in 1..Len(l) : l[i].kind = cli.kind}
        IN  IF hits # {}
            THEN \E i \in hits :
                    /\ \A j \in hits : i <= j
                    /\ resource.plural = l[i].name
                    /\ resource.namespaced = l[i].namespaced
                    /\ resource.kind = cli.kind
                    /\ resource.api_version = cli.apiversion
                    /\ IF cli.apiversion = V1
                       THEN resource.group = <<>> /\ resource.version = V1
                       ELSE /\ resource.group \o <<"/">> \o resource.version = cli.apiversion
                            /\ ~HasSlash(resource.group)
                    /\ err # "NotFound"
            ELSE pc = "exit" /\ err = "NotFound" /\ resource = NoResource

\* A descriptor was resolved from a list with two entries of the requested
\* kind that differ in plural name.
C7_Witness ==
    /\ response.ok /\ HasSlash(cli.apiversion) /\ resource.kind # None
    /\ Len(response.resources) = 2
    /\ response.resources[1].kind = cli.kind /\ response.resources[2].kind = cli.kind
    /\ response.resources[1].name # response.resources[2].name

\* C8 as stated: for an apiversion that is not "v1" and has no '/', the
\* resolver fails with MalformedGroupVersion whatever discovery answered and
\* whether or not it failed.
C8_MalformedWhateverDiscovery ==
    (response.sent /\ cli.apiversion # V1 /\ ~HasSlash(cli.apiversion)) =>
        pc = "exit" /\ err = "MalformedGroupVersion"

----------------------------------------------------------------------------
(* Properties of the watch loop (Spec) *)

C10_StreamErrorsNeverTerminate ==
    /\ pc = "watching"
    /\ err = "none"
    /\ bstate \in {"Awake", "BackingOff"}
    /\ bstate = "BackingOff" => ENABLED BackoffWake
    /\ (bstate = "Awake" /\ queue = <<>>) =>
          ENABLED (ListOk \/ ListErr \/ WatchStartOk \/ WatchStartErr \/ WatchApplied
                   \/ WatchDeleted \/ WatchError \/ WatchFailed \/ WatchEnd)
    /\ queue # <<>> => bstate = "Awake" /\ ENABLED SinkNext

\* The backoff sleeps again with the interval at its maximum, after a run of
\* errors that included a checkpoint expiry.
C10_Witness ==
    pc = "watching" /\ interval = MaxInterval /\ bstate = "BackingOff" /\ pending = "gone"

\* An Err item is delivered right after another Err item, and the reset timer
\* had not expired: one more of a run of consecutive failures.
NextConsecutiveFailure ==
    last.tag = "Err" /\ bstate = "Awake" /\ bstate' = "BackingOff" /\ ~wasReset'

\* C11 as stated: in a run of consecutive failures the reconnect delay never
\* decreases and never exceeds the maximum delay.
C11_DelaysNonDecreasingCapped ==
    [][NextConsecutiveFailure => delay' >= delay /\ delay' <= MaxInterval]_vars

\* C11 amended: in a run of consecutive failures the backoff's base interval
\* never decreases and never exceeds the maximum delay, and each reconnect
\* delay is drawn from 0 to twice the base interval it was drawn for.
C11_BaseIntervalNonDecreasingCapped ==
    [][NextConsecutiveFailure =>
          /\ interval' >= interval
          /\ interval' <= MaxInterval
          /\ interval <= MaxInterval
          /\ delay' >= 0
          /\ delay' <= 2 * interval]_vars

\* In a run of failures without reset the base interval is at its maximum and
\* the delay drawn is twice that.
C11_Witness ==
    /\ last.tag = "Err" /\ ~wasReset /\ bstate = "BackingOff"
    /\ interval = MaxInterval /\ delay = 2 * MaxInterval

----------------------------------------------------------------------------
(* Properties of merge_from (SpecMerge) *)

\* C12: merging a partial spec into a copy of itself leaves it as it was,
\* for every schema.
C12_MergeIdempotent ==
    mout.aa # Absent => mout.aa = Some(ma)

C12_Witness ==
    /\ mschema = "ProjectSpec"
    /\ ma.resource_quota # Absent
    /\ ma.resource_quota[1].limit # Absent
    /\ ma.resource_quota[1].limit[1].pods = Some("5")
    /\ mout.aa = Some(ma)

\* The three rules, applied over the fields of the schema named t: a plain
\* scalar takes other's value; an optional field keeps self's when other
\* lacks it, takes other's when self lacks it, and is merged by the rules of
\* its own type when both have it.
RECURSIVE ByRules(_, _, _)
ByRules(t, self, other) ==
    IF t \in {"String", "bool"}
    THEN other
    ELSE [f \in DOMAIN Schemas[t] |->
            IF Schemas[t][f].opt
            THEN IF other[f] = Absent THEN self[f]
                 ELSE IF self[f] = Absent THEN other[f]
                 ELSE Some(ByRules(Schemas[t][f].of, self[f][1], other[f][1]))
            ELSE ByRules(Schemas[t][f].of, self[f], other[f])]

PodsOnly == [AllAbsent(ResourceQuotaLimitFields) EXCEPT !.pods = Some("5")]
ServicesOnly == [AllAbsent(ResourceQuotaLimitFields) EXCEPT !.services = Some("3")]
QuotaWith(l) == [BareProjectSpec EXCEPT !.resource_quota = Some([limit |-> Some(l), used_limit |-> Absent])]

\* C13: for every pair of specs the merge is the result of the three rules
\* over every field of the schema, nothing is skipped, the next merge can
\* always be taken, and limit.pods = "5" merged with limit.services = "3"
\* has both.
C13_MergeFollowsRules ==
    /\ mout.ab # Absent =>
          /\ DOMAIN mout.ab[1] = DOMAIN Schemas[mschema]
          /\ mout.ab = Some(ByRules(mschema, ma, mb))
    /\ mstep \in {"given", "self", "left"} => ENABLED MergeNext
    /\ (mout.ab # Absent /\ ma = QuotaWith(PodsOnly) /\ mb = QuotaWith(ServicesOnly)) =>
          /\ mout.ab[1].resource_quota[1].limit[1].pods = Some("5")
          /\ mout.ab[1].resource_quota[1].limit[1].services = Some("3")

C13_Witness ==
    /\ mschema = "ProjectSpec"
    /\ ma = QuotaWith(PodsOnly)
    /\ mb = QuotaWith(ServicesOnly)
    /\ mout.ab # Absent
    /\ mout.ab[1].resource_quota[1].limit[1] =
          [AllAbsent(ResourceQuotaLimitFields) EXCEPT !.pods = Some("5"), !.services = Some("3")]

\* C20: merging b into a and then c into the result equals merging into a
\* the result of merging c into b, for every schema.
C20_MergeAssociative ==
    mout.a_bc # Absent => mout.ab_c = mout.a_bc

C20_Witness ==
    /\ mschema = "ProjectResourceQuota"
    /\ ma.limit = Absent
    /\ mb.limit # Absent /\ mb.limit[1].pods = Some("5")
    /\ mc.limit # Absent /\ mc.limit[1].services = Some("3")
    /\ mout.a_bc # Absent
    /\ mout.a_bc[1].limit[1].pods = Some("5")
    /\ mout.a_bc[1].limit[1].services = Some("3")
    /\ mout.ab_c = mout.a_bc

----------------------------------------------------------------------------
(* C14: readers of the store while the writer applies events *)

\* The events the writer is handed: Ok events after the transformation.
WriterEvents ==
    {Modify(Applied(o)) : o \in Objects} \cup {Modify(Deleted(o)) : o \in Objects}
        \cup {Modify(Restarted(l)) : l \in ObjectLists}

\* A variant of Publications that empties the shared map and then inserts
\* the objects of a Restarted one lock acquisition at a time.
PublicationsPiecewise(s, ev) ==
    IF ev.tag = "Restarted"
    THEN [i \in 1..(Len(ev.items) + 1) |-> Collect(EmptyStore, SubSeq(ev.items, 1, i - 1))]
    ELSE <<ApplyWatcherEvent(s, ev)>>

\* The maps apply_watcher_event makes visible, one per acquisition of the
\* write lock: the whole event in a single acquisition.
Publications(s, ev) == <<ApplyWatcherEvent(s, ev)>>

\* The writer takes the next event (main.rs:85).
WriterBegin(ev) ==
    /\ writing.steps = <<>>
    /\ writing' = [ev |-> ev, before |-> shared, steps |-> Publications(shared, ev)]
    /\ seen' = [r \in Readers |-> NoRead]
    /\ UNCHANGED shared
    /\ UNCHANGED <<startupVars, pipelineVars, mergeVars>>

\* The writer, holding the write lock, makes the next map visible.
WriterPublish ==
    /\ writing.steps # <<>>
    /\ shared' = Head(writing.steps)
    /\ writing' = [writing EXCEPT !.steps = Tail(writing.steps)]
    /\ UNCHANGED seen
    /\ UNCHANGED <<startupVars, pipelineVars, mergeVars>>

\* A reader takes the read lock and copies what it finds.
ReaderRead(r) ==
    /\ seen' = [seen EXCEPT ![r] = <<shared>>]
    /\ UNCHANGED <<shared, writing>>
    /\ UNCHANGED <<startupVars, pipelineVars, mergeVars>>

ReadersInit == PipelineInit /\ ReadersIdle /\ MergeIdle

ReadersNext ==
    \/ \E ev \in WriterEvents : WriterBegin(ev)
    \/ WriterPublish
    \/ \E r \in Readers : ReaderRead(r)

SpecReaders == ReadersInit /\ [][ReadersNext]_vars

\* C14: whatever a reader's read returns is the map at an event boundary:
\* the map as it was before the event the writer is applying, or the map
\* with that event applied in full.
C14_ReadersSeeEventBoundaries ==
    \A r \in Readers :
        seen[r] # NoRead =>
            seen[r][1] \in {writing.before, ApplyWatcherEvent(writing.before, writing.ev)}

C14_Witness ==
    /\ writing.ev.tag = "Restarted"
    /\ Len(writing.ev.items) = 2
    /\ Cardinality(DOMAIN writing.before) = 2
    /\ DOMAIN writing.before # KeysOf(writing.ev.items)
    /\ seen["r1"] = <<writing.before>>
    /\ seen["r2"] = <<shared>>
    /\ shared # writing.before

----------------------------------------------------------------------------
(* C15: the transformation clears managed_fields and nothing else *)

\* The identity and content of an object, everything but managed_fields.
Rest(o) == [ns |-> o.ns, name |-> o.name, data |-> o.data]

\* C15: for an Applied or Restarted event the transformed event has the same
\* variant, the same number of objects in the same order, and each object
\* differs from the original only in that managed_fields is cleared.
C15_TransformClearsOnlyManagedFields ==
    raw.tag \in {"Applied", "Restarted"} =>
        /\ last.tag = raw.tag
        /\ Len(last.items) = Len(raw.items)
        /\ \A i \in 1..Len(raw.items) :
              /\ Rest(last.items[i]) = Rest(raw.items[i])
              /\ last.items[i].managed_fields = "None"

C15_Witness ==
    /\ raw.tag = "Restarted"
    /\ Len(raw.items) = 2
    /\ raw.items[1].managed_fields = "Some"
    /\ raw.items[1].data = "s2"
    /\ raw.items[2].managed_fields = "None"
    /\ last.items[1].managed_fields = "None"

----------------------------------------------------------------------------
(* C16: one record per event applied *)

\* C16: every delivered event has printed exactly one line, with its kind
\* and for Restarted the number of objects, and the lines printed so far
\* are as many as the events applied to the store.
C16_OneRecordPerEvent ==
    /\ balance = 0
    /\ last.tag = "Applied" => rec = << <<"apply">> >>
    /\ last.tag = "Deleted" => rec = << <<"deleted">> >>
    /\ last.tag = "Restarted" => rec = << <<"restarted", Len(last.items)>> >>

C16_Witness ==
    /\ last.tag = "Restarted"
    /\ Len(last.items) = 2
    /\ rec = << <<"restarted", 2>> >>
    /\ balance = 0
    /\ purged

----------------------------------------------------------------------------
(* C17: the store is written before the sink sees the object *)

\* The position in the event's objects of the one the sink holds.
SunkIndex == Len(TouchedObjects(last)) - Len(queue)

\* The store reflects the event: a Restarted replaced it, an Applied is in
\* it, a Deleted is out of it.
Reflects(s, ev) ==
    CASE ev.tag = "Restarted" ->
            /\ DOMAIN s = KeysOf(ev.items)
            /\ \A i \in 1..Len(ev.items) : s[ObjectRef(ev.items[i])] = ev.items[i]
      [] ev.tag = "Applied" ->
            /\ ObjectRef(ev.items[1]) \in DOMAIN s
            /\ s[ObjectRef(ev.items[1])] = ev.items[1]
      [] ev.tag = "Deleted" -> ObjectRef(ev.items[1]) \notin DOMAIN s
      [] OTHER -> TRUE

\* C17: while the sink holds an object of an event, that event is the last
\* one the stream delivered, and the store reflects it in full.
C17_StoreWrittenBeforeSink ==
    (sunk.kind = "obj" /\ TouchedObjects(last) # <<>>) =>
        /\ SunkIndex \in 1..Len(TouchedObjects(last))
        /\ sunk.obj = <<TouchedObjects(last)[SunkIndex]>>
        /\ Reflects(store, last)

C17_Witness ==
    /\ last.tag = "Restarted"
    /\ Len(last.items) = 2
    /\ sunk.kind = "obj"
    /\ sunk.obj = <<last.items[1]>>
    /\ queue = <<last.items[2]>>
    /\ ObjectRef(last.items[2]) \in DOMAIN store

----------------------------------------------------------------------------
(* C18: an error item touches neither the store nor the records *)

\* C18: a step that delivers an Err item leaves the store and the count of
\* lines and applications as they were, prints nothing, and hands the sink
\* the error the watcher produced; the store changes only on an Ok event.
C18_ErrLeavesStore ==
    [][/\ last'.tag = "Err" =>
             /\ store' = store
             /\ rec' = <<>>
             /\ balance' = balance
             /\ last' = raw'
             /\ sunk' = SunkError(raw'.err)
       /\ store' # store => IsOk(last') /\ rec' # <<>>]_vars

C18_Witness ==
    /\ last.tag = "Err"
    /\ DOMAIN store # {}
    /\ rec = <<>>
    /\ sunk.kind = "err"

----------------------------------------------------------------------------
(* C19: nothing in the store carries managed_fields *)

\* Every object in the store has managed_fields cleared and sits under its
\* own identity, and a Deleted event leaves its object out of the store.
StoreHasNoManagedFields ==
    /\ \A k \in DOMAIN store :
          /\ store[k].managed_fields = "None"
          /\ ObjectRef(store[k]) = k
    /\ last.tag = "Deleted" => ObjectRef(last.items[1]) \notin DOMAIN store

\* C19 as stated: every object in the store has managed_fields cleared, a
\* Deleted event never inserts, and the transformation leaves a Deleted
\* event as the watcher produced it.
C19_StoreClearedDeletedUntouched ==
    /\ StoreHasNoManagedFields
    /\ raw.tag = "Deleted" => last = raw

\* C19 amended: every object in the store has managed_fields cleared and a
\* Deleted event never inserts; the transformation runs on the object of a
\* Deleted event as well, so the object handed on has managed_fields cleared.
C19_StoreClearedDeletedTransformed ==
    /\ StoreHasNoManagedFields
    /\ raw.tag = "Deleted" =>
          /\ last.tag = "Deleted"
          /\ last.items = <<ClearManagedFields(raw.items[1])>>
          /\ sunk = SunkObject(last.items[1])

C19_Witness ==
    /\ raw.tag = "Deleted"
    /\ raw.items[1].managed_fields = "Some"
    /\ last.items[1].managed_fields = "None"
    /\ Cardinality(DOMAIN store) = 1
    /\ purged

====
